---- MODULE Spec2Model ----
(***************************************************************************)
(* Model of process_excel (src/app.py): the extraction-and-aggregation     *)
(* pipeline over a "Chart of Accounts Status" grid.                        *)
(*                                                                         *)
(* Text is a sequence of one-character strings, so that substring tests,   *)
(* case folding, trimming and the regular-expression substitutions are     *)
(* computed character by character as Python computes them.  A cell is a   *)
(* record [t, v, s]: t = "num" (value v), t = "str" (text s) or t = "nan"  *)
(* (an empty spreadsheet cell).  Numbers are integers; usd_equivalent is   *)
(* kept in hundredths.  Row indices start at 0 as in the DataFrame.  pc is *)
(* the position in the handler; spans records the (start, end) of every   *)
(* section the loop has processed, as the handler logs them.               *)
(***************************************************************************)
EXTENDS Integers, Sequences, FiniteSets, TLC

VARIABLES grid, df_joined, pc, receivables_start, orders_start, sec_i, spans,
          data, skipped_rows, credit_limits, pivot, only_full, result, response

vars == <<grid, df_joined, pc, receivables_start, orders_start, sec_i, spans,
          data, skipped_rows, credit_limits, pivot, only_full, result, response>>

(* ---------------------------- bounds ----------------------------------- *)
MaxRows == 4

(* ---------------------------- text helpers ----------------------------- *)
UpperToLower ==
  "A" :> "a" @@ "B" :> "b" @@ "C" :> "c" @@ "D" :> "d" @@ "E" :> "e" @@
  "F" :> "f" @@ "G" :> "g" @@ "H" :> "h" @@ "I" :> "i" @@ "J" :> "j" @@
  "K" :> "k" @@ "L" :> "l" @@ "M" :> "m" @@ "N" :> "n" @@ "O" :> "o" @@
  "P" :> "p" @@ "Q" :> "q" @@ "R" :> "r" @@ "S" :> "s" @@ "T" :> "t" @@
  "U" :> "u" @@ "V" :> "v" @@ "W" :> "w" @@ "X" :> "x" @@ "Y" :> "y" @@
  "Z" :> "z"

UpperCase == DOMAIN UpperToLower

\* str.lower()
Lower(s) ==
  [i \in 1..Len(s) |-> IF s[i] \in UpperCase THEN UpperToLower[s[i]] ELSE s[i]]

IsSpace(c) == c = " "

RECURSIVE LStrip(_)
LStrip(s) == IF s # <<>> /\ IsSpace(Head(s)) THEN LStrip(Tail(s)) ELSE s

RECURSIVE RStrip(_)
RStrip(s) ==
  IF s # <<>> /\ IsSpace(s[Len(s)]) THEN RStrip(SubSeq(s, 1, Len(s) - 1)) ELSE s

\* str.strip()
Strip(s) == RStrip(LStrip(s))

\* the case-insensitive literal pat (given in lower case) matches at the
\* start of s
MatchAt(s, pat) == Len(s) >= Len(pat) /\ Lower(SubSeq(s, 1, Len(pat))) = pat

\* Python's  sub in s  (the text is bound once, then scanned)
Contains(s, sub) ==
  \E t \in {s} : \E i \in 1..(Len(t) - Len(sub) + 1) : SubSeq(t, i, i + Len(sub) - 1) = sub

Drop(s, n) == SubSeq(s, n + 1, Len(s))

\* re.sub(pat, '', s, flags=re.IGNORECASE) for a literal (lower-case) pat:
\* leftmost non-overlapping matches, one pass
RECURSIVE ReSub(_, _)
ReSub(pat, s) ==
  IF s = <<>> THEN <<>>
  ELSE IF MatchAt(s, pat) THEN ReSub(pat, Drop(s, Len(pat)))
  ELSE <<Head(s)>> \o ReSub(pat, Tail(s))

\* re.sub(p1|p2, '', s, flags=re.IGNORECASE): at each position the
\* alternatives are tried in order
RECURSIVE ReSubAlt(_, _, _)
ReSubAlt(p1, p2, s) ==
  IF s = <<>> THEN <<>>
  ELSE IF MatchAt(s, p1) THEN ReSubAlt(p1, p2, Drop(s, Len(p1)))
  ELSE IF MatchAt(s, p2) THEN ReSubAlt(p1, p2, Drop(s, Len(p2)))
  ELSE <<Head(s)>> \o ReSubAlt(p1, p2, Tail(s))

Digits == <<"0", "1", "2", "3", "4", "5", "6", "7", "8", "9">>

RECURSIVE NatToStr(_)
NatToStr(n) ==
  IF n < 10 THEN <<Digits[n + 1]>> ELSE NatToStr(n \div 10) \o <<Digits[(n % 10) + 1]>>

\* str() of an integer
IntToStr(n) == IF n < 0 THEN <<"-">> \o NatToStr(-n) ELSE NatToStr(n)

DigitVal(c) == CHOOSE d \in 0..9 : Digits[d + 1] = c

IsDigit(c) == \E d \in 1..10 : Digits[d] = c

RECURSIVE StrToNat(_)
StrToNat(s) ==
  IF s = <<>> THEN 0 ELSE 10 * StrToNat(SubSeq(s, 1, Len(s) - 1)) + DigitVal(s[Len(s)])

(* ---------------------------- cells ------------------------------------ *)
Num(n) == [t |-> "num", v |-> n, s |-> <<>>]
Str(x) == [t |-> "str", v |-> 0, s |-> x]
NaN == [t |-> "nan", v |-> 0, s |-> <<>>]

\* str(cell) / astype(str)
CellStr(c) ==
  IF c.t = "num" THEN IntToStr(c.v)
  ELSE IF c.t = "str" THEN c.s
  ELSE <<"n", "a", "n">>

\* pd.to_numeric(..., errors='coerce') of one cell; NaN when not coercible
ToNumeric(c) ==
  IF c.t = "num" THEN c
  ELSE IF c.t = "str" /\ Strip(c.s) # <<>> /\ \A i \in 1..Len(Strip(c.s)) : IsDigit(Strip(c.s)[i])
       THEN Num(StrToNat(Strip(c.s)))
  ELSE NaN

(* ---------------------------- program constants ------------------------ *)
CODE_RECEIVABLES == <<"2", "4", "0", "6", "0", "1">>
CODE_ORDERS == <<"1", "1", "0", "3", "0", "1">>
RMB == <<"r", "m", "b">>
RMB_PAREN == <<"(", "r", "m", "b", ")">>
CREDIT_LIMIT == <<"c", "r", "e", "d", "i", "t", " ", "l", "i", "m", "i", "t">>
\* the exchange rate 7.10, as 71/10
RateNum == 71
RateDen == 10


(* ---------------------------- input grids ------------------------------ *)
\* rows of four columns: 0 = code text, 1 = client label, 2.. = amounts
ROW_REC == <<Num(240601), NaN, NaN, NaN>>
ROW_ORD == <<Str(<<"1", "1", "0", "3", "0", "1">>), NaN, NaN, NaN>>
ROW_BOTH == <<Str(<<"2", "4", "0", "6", "0", "1">>), NaN, Str(<<"x", "1", "1", "0", "3", "0", "1">>), NaN>>
ROW_A100 == <<NaN, Str(<<"A", " ", "(", "R", "M", "B", ")">>), NaN, Num(100)>>
ROW_ANEG == <<NaN, Str(<<"A", " ", "(", "R", "M", "B", ")">>), NaN, Num(-100)>>
ROW_A50 == <<NaN, Str(<<"A", " ", "R", "M", "B">>), Num(0), Num(50)>>
ROW_NOLABEL == <<NaN, NaN, NaN, Num(70)>>
ROW_NOAMT == <<NaN, Str(<<"B", "(", "r", "m", "b", ")">>), Str(<<"x">>), Num(0)>>
ROW_CREDIT == <<NaN, Str(<<"r", "(", "r", "m", "b", ")", "m", "b">>), Str(<<"C", "r", "e", "d", "i", "t", " ", "L", "i", "m", "i", "t">>), Num(5000)>>

RowKinds ==
  {ROW_REC, ROW_ORD, ROW_BOTH, ROW_A100, ROW_ANEG, ROW_A50, ROW_NOLABEL,
   ROW_NOAMT, ROW_CREDIT}

\* the grids after dropna(how='all'): every row has a non-empty cell
Grids == UNION {[1..n -> RowKinds] : n \in 1..MaxRows}

(* ---------------------------- grid normalizer -------------------------- *)
\* rows are indexed from 0 as in the DataFrame
Row(g, i) == g[i + 1]

\* df_str: every cell as lower-cased, trimmed text
NormCell(c) == Strip(Lower(CellStr(c)))

RECURSIVE JoinCells(_)
JoinCells(cells) ==
  IF cells = <<>> THEN <<>>
  ELSE IF Len(cells) = 1 THEN cells[1]
  ELSE cells[1] \o <<" ">> \o JoinCells(Tail(cells))

\* ' '.join(row) over the normalized row
Joined(g, i) == JoinCells([j \in 1..Len(Row(g, i)) |-> NormCell(Row(g, i)[j])])

\* df_str.apply(lambda row: ' '.join(row), axis=1)
JoinRows(g) == [k \in 1..Len(g) |-> Joined(g, k - 1)]

\* code in the joined text of row i; j is the sequence of joined row texts
HasCode(j, i, code) == Contains(j[i + 1], code)

HasAnyCode(j, i) == HasCode(j, i, CODE_RECEIVABLES) \/ HasCode(j, i, CODE_ORDERS)

\* the row index of the DataFrame, in order
Index(g) == [k \in 1..Len(g) |-> k - 1]

\* df[mask].index : ascending row indices whose joined text contains code
SectionIndices(j, code) == SelectSeq(Index(j), LAMBDA i : HasCode(j, i, code))

(* ---------------------------- section scanner -------------------------- *)
RECURSIVE NextSection(_, _)
\* next_section_mask.idxmax() from row i on: the first row containing any
\* code, len(df) when the mask has no True
NextSection(j, i) ==
  IF i >= Len(j) THEN Len(j)
  ELSE IF HasAnyCode(j, i) THEN i
  ELSE NextSection(j, i + 1)

\* variant: only the receivables code ends a section
RECURSIVE NextReceivables(_, _)
NextReceivables(j, i) ==
  IF i >= Len(j) THEN Len(j)
  ELSE IF HasCode(j, i, CODE_RECEIVABLES) THEN i
  ELSE NextReceivables(j, i + 1)

EndIdx_OwnCodeOnly(j, start_idx) == NextReceivables(j, start_idx + 1)

\* end_idx: first row after start_idx containing any code, else len(df)
EndIdx(j, start_idx) == NextSection(j, start_idx + 1)

\* row indices of section_data = df.iloc[start_idx+1:end_idx], in order
SectionRows(g, start_idx, end_idx) == SubSeq(Index(g), start_idx + 2, end_idx)

(* ---------------------------- identity classifier ---------------------- *)
\* rmb_mask: the lower-cased label text contains 'rmb'
RmbMask(g, i) == Contains(Lower(CellStr(Row(g, i)[2])), RMB)

ClientInfo(g, i) == Strip(CellStr(Row(g, i)[2]))

InvalidClient(info) == info = <<>> \/ Lower(info) = <<"n", "a", "n">>

ClientId(info) == Strip(ReSub(RMB_PAREN, info))

ClientName(info) == Strip(ReSub(RMB, ClientId(info)))

(* ---------------------------- amount extractor ------------------------- *)
\* numeric_vals[numeric_vals != 0].dropna() over row[2:]
NonZeroAmounts(row) ==
  SelectSeq([j \in 1..(Len(row) - 2) |-> ToNumeric(row[j + 2])],
            LAMBDA c : c.t = "num" /\ c.v # 0)

(* ---------------------------- record extraction ------------------------ *)
\* the loop over rmb_rows of one section: acc = [data, skipped]
RECURSIVE ProcessRmbRows(_, _, _, _)
ProcessRmbRows(g, rows, section_type, acc) ==
  IF rows = <<>> THEN acc
  ELSE
    LET i == Head(rows)
        client_info == ClientInfo(g, i)
        non_zero_amounts == NonZeroAmounts(Row(g, i))
        next ==
          IF InvalidClient(client_info)
          THEN [acc EXCEPT !.skipped.invalid_client = @ + 1]
          ELSE IF non_zero_amounts = <<>>
          THEN [acc EXCEPT !.skipped.no_amount = @ + 1]
          ELSE [acc EXCEPT !.data = Append(@,
                  [client_id |-> ClientId(client_info),
                   client_name |-> ClientName(client_info),
                   code |-> IF section_type = "receivables"
                            THEN CODE_RECEIVABLES ELSE CODE_ORDERS,
                   amount |-> non_zero_amounts[1].v,
                   type |-> section_type])]
    IN ProcessRmbRows(g, Tail(rows), section_type, next)

\* the (section_type, start_idx) pairs in the order the loops visit them
Markers(rs, os) ==
  [k \in 1..Len(rs) |-> <<"receivables", rs[k]>>] \o
  [k \in 1..Len(os) |-> <<"orders", os[k]>>]

(* ---------------------------- credit limits ---------------------------- *)
CreditLimitMask(g, i) ==
  \E j \in 1..Len(Row(g, i)) : Contains(NormCell(Row(g, i)[j]), CREDIT_LIMIT)

CleanedName(potential_name) == Strip(ReSubAlt(RMB, RMB_PAREN, potential_name))

EmptyMap == [k \in {} |-> 0]

Put(m, k, x) == [q \in DOMAIN m \cup {k} |-> IF q = k THEN x ELSE m[q]]

RECURSIVE CreditLoop(_, _, _)
CreditLoop(g, rows, limits) ==
  IF rows = <<>> THEN limits
  ELSE
    LET i == Head(rows)
        potential_name == Strip(CellStr(Row(g, i)[2]))
        non_zero_amounts == NonZeroAmounts(Row(g, i))
        next ==
          IF ~Contains(Lower(potential_name), RMB) THEN limits
          ELSE IF Len(non_zero_amounts) > 0
          THEN Put(limits, CleanedName(potential_name), non_zero_amounts[1].v)
          ELSE limits
    IN CreditLoop(g, Tail(rows), next)

(* ---------------------------- aggregator ------------------------------- *)
RECURSIVE SumAmount(_, _, _)
\* sum of amount over the records of d with the given group key and type
SumAmount(d, key, type) ==
  IF d = <<>> THEN 0
  ELSE (IF <<Head(d).client_id, Head(d).client_name>> = key /\ Head(d).type = type
        THEN Head(d).amount ELSE 0) + SumAmount(Tail(d), key, type)

\* the (client_id, client_name, type) groups present in data
GroupKeys(d) ==
  {<<d[k].client_id, d[k].client_name, d[k].type>> : k \in 1..Len(d)}

\* variant: the group sum ignores the record type
PivotCell_AnyType(d, key, type) ==
  SumAmount(d, key, "receivables") + SumAmount(d, key, "orders")

\* groupby(...).sum().unstack(fill_value=0) plus the missing columns
PivotCell(d, key, type) ==
  IF <<key[1], key[2], type>> \in GroupKeys(d) THEN SumAmount(d, key, type) ELSE 0

\* round(n / d) to the nearest integer, d > 0
RoundDiv(n, d) == (2 * n + d) \div (2 * d)

\* (x / 7.10).round(2), in hundredths
UsdHundredths(x) == RoundDiv(x * 100 * RateDen, RateNum)

\* the value the code converts to USD
UsdBase(receivables, orders) == orders

\* f"{x:.2f}" if present and non-zero else ""
CreditLimitDisplay(limits, name) ==
  IF name \in DOMAIN limits /\ limits[name] # 0
  THEN IntToStr(limits[name]) \o <<".", "0", "0">>
  ELSE <<>>

Pivot(d, limits) ==
  {[client_id |-> key[1],
    client_name |-> key[2],
    receivables |-> PivotCell(d, key, "receivables"),
    orders |-> PivotCell(d, key, "orders"),
    usd_equivalent |-> UsdHundredths(UsdBase(PivotCell(d, key, "receivables"),
                                              PivotCell(d, key, "orders"))),
    credit_limit |-> CreditLimitDisplay(limits, key[2])]
   : key \in {<<d[k].client_id, d[k].client_name>> : k \in 1..Len(d)}}

(* ---------------------------- report filter ---------------------------- *)
\* variant: one positive total is enough
KeepFull_Either(c) == c.receivables > 0 \/ c.orders > 0

KeepFull(c) == c.receivables > 0 /\ c.orders > 0

KeepEither(c) == c.receivables # 0 \/ c.orders # 0

FilterPivot(p, full) == IF full THEN {c \in p : KeepFull(c)} ELSE {c \in p : KeepEither(c)}

\* variant: the two messages swapped
ErrorMsg_Swapped(full) ==
  IF full THEN "No clients found with receivables or orders"
  ELSE "No clients found with both receivables AND orders"

ErrorMsg(full) ==
  IF full THEN "No clients found with both receivables AND orders"
  ELSE "No clients found with receivables or orders"

(* ---------------------------- the pipeline ----------------------------- *)
NoResponse == [status |-> 0, error |-> "", debug |-> {}]

Init ==
  /\ grid \in Grids
  /\ df_joined = <<>>
  /\ pc = "scan"
  /\ receivables_start = <<>>
  /\ orders_start = <<>>
  /\ sec_i = 0
  /\ spans = {}
  /\ data = <<>>
  /\ skipped_rows = [no_rmb |-> 0, no_amount |-> 0, invalid_client |-> 0]
  /\ credit_limits = EmptyMap
  /\ pivot = {}
  /\ only_full = TRUE
  /\ result = {}
  /\ response = NoResponse

\* section detection over the joined normalized rows
ScanSections ==
  /\ pc = "scan"
  /\ \E joined \in {JoinRows(grid)} :
       /\ df_joined' = joined
       /\ receivables_start' = SectionIndices(joined, CODE_RECEIVABLES)
       /\ orders_start' = SectionIndices(joined, CODE_ORDERS)
  /\ pc' = "sections"
  /\ UNCHANGED <<grid, sec_i, spans, data, skipped_rows, credit_limits, pivot,
                 only_full, result, response>>

\* one iteration of the loop over (section_type, start_idx); each local of
\* the loop body is bound once, in the order the code assigns it
ProcessSection ==
  /\ pc = "sections"
  /\ sec_i < Len(Markers(receivables_start, orders_start))
  /\ \E marker \in {Markers(receivables_start, orders_start)[sec_i + 1]} :
     \E section_type \in {marker[1]} :
     \E start_idx \in {marker[2]} :
     \E end_idx \in {EndIdx(df_joined, start_idx)} :
     \E section_rows \in {SectionRows(grid, start_idx, end_idx)} :
     \E rmb_rows \in {SelectSeq(section_rows, LAMBDA i : RmbMask(grid, i))} :
     \E non_rmb_count \in {Len(section_rows) - Len(rmb_rows)} :
     \E acc \in {ProcessRmbRows(grid, rmb_rows, section_type,
                   [data |-> data,
                    skipped |-> [skipped_rows EXCEPT !.no_rmb = @ + non_rmb_count]])} :
        /\ spans' = spans \cup {[section_type |-> section_type,
                                 start_row |-> start_idx + 1,
                                 end_row |-> end_idx]}
        /\ data' = acc.data
        /\ skipped_rows' = acc.skipped
  /\ sec_i' = sec_i + 1
  /\ UNCHANGED <<grid, df_joined, pc, receivables_start, orders_start, credit_limits,
                 pivot, only_full, result, response>>

\* the grid-wide credit limit pass, after the last section
ExtractCreditLimits ==
  /\ pc = "sections"
  /\ sec_i = Len(Markers(receivables_start, orders_start))
  /\ credit_limits' =
       CreditLoop(grid, SelectSeq(Index(grid), LAMBDA i : CreditLimitMask(grid, i)),
                  EmptyMap)
  /\ pc' = "aggregate"
  /\ UNCHANGED <<grid, df_joined, receivables_start, orders_start, sec_i, spans, data,
                 skipped_rows, pivot, only_full, result, response>>

\* if not data: the empty-extraction failure
FailEmptyExtraction ==
  /\ pc = "aggregate"
  /\ data = <<>>
  /\ response' = [status |-> 400, error |-> "No valid RMB entries found.",
                  debug |-> {skipped_rows}]
  /\ pc' = "done"
  /\ UNCHANGED <<grid, df_joined, receivables_start, orders_start, sec_i, spans, data,
                 skipped_rows, credit_limits, pivot, only_full, result>>

\* group, sum, convert and attach the credit limits
Aggregate ==
  /\ pc = "aggregate"
  /\ data # <<>>
  /\ pivot' = Pivot(data, credit_limits)
  /\ pc' = "filter"
  /\ UNCHANGED <<grid, df_joined, receivables_start, orders_start, sec_i, spans, data,
                 skipped_rows, credit_limits, only_full, result, response>>

\* the report filter; only_full is the request argument
Filter ==
  /\ pc = "filter"
  /\ \E full \in BOOLEAN :
       /\ only_full' = full
       /\ result' = FilterPivot(pivot, full)
       /\ response' = IF FilterPivot(pivot, full) = {}
                      THEN [status |-> 400, error |-> ErrorMsg(full), debug |-> {}]
                      ELSE [status |-> 200, error |-> "", debug |-> {}]
  /\ pc' = "done"
  /\ UNCHANGED <<grid, df_joined, receivables_start, orders_start, sec_i, spans, data,
                 skipped_rows, credit_limits, pivot>>

Next ==
  \/ ScanSections
  \/ ProcessSection
  \/ ExtractCreditLimits
  \/ FailEmptyExtraction
  \/ Aggregate
  \/ Filter

Spec == Init /\ [][Next]_vars


(* ======================================================================= *)
(* Properties                                                              *)
(* ======================================================================= *)
\* the section loop and the credit limit pass have finished
Extracted == pc \in {"aggregate", "filter", "done"}

CodeOf(section_type) ==
  IF section_type = "receivables" THEN CODE_RECEIVABLES ELSE CODE_ORDERS

RECURSIVE SumOver(_, _)
\* sum of the total named col ("receivables" or "orders") over a set of clients
SumOver(P, col) ==
  IF P = {} THEN 0
  ELSE LET c == CHOOSE x \in P : TRUE
       IN (IF col = "receivables" THEN c.receivables ELSE c.orders)
          + SumOver(P \ {c}, col)

RECURSIVE SumRecords(_, _)
\* sum of amount over the records of the given type
SumRecords(d, type) ==
  IF d = <<>> THEN 0
  ELSE (IF Head(d).type = type THEN Head(d).amount ELSE 0) + SumRecords(Tail(d), type)

\* C1: for every aggregated client, usd_equivalent = round(net_total / 7.10, 2)
\* with net_total = receivables_total - orders_total.
C1_UsdFromNet ==
  \A c \in pivot : c.usd_equivalent = RoundDiv((c.receivables - c.orders) * 1000, 71)

\* C2: client_id and client_name of every extracted record are the same string.
C2_IdEqualsName ==
  \A k \in 1..Len(data) : data[k].client_id = data[k].client_name

\* C3: neither client_id nor client_name of an extracted record contains
\* 'rmb' in any letter case.
C3_NoRmbLeft ==
  \A k \in 1..Len(data) :
    /\ ~Contains(Lower(data[k].client_id), <<"r", "m", "b">>)
    /\ ~Contains(Lower(data[k].client_name), <<"r", "m", "b">>)

\* C4: the filter output is exactly the aggregated clients with receivables > 0
\* and orders > 0 when only_full, and those with receivables # 0 or orders # 0
\* otherwise; kept clients are unchanged.
C4_FilterExact ==
  (pc = "done" /\ data # <<>>) =>
    /\ result \subseteq pivot
    /\ \A c \in pivot :
         c \in result <=>
           IF only_full THEN c.receivables > 0 /\ c.orders > 0
           ELSE c.receivables # 0 \/ c.orders # 0

C4_Witness ==
  /\ pc = "done"
  /\ only_full
  /\ result # {}
  /\ \E c \in pivot : c \notin result /\ c.orders > 0

\* C5: the receivables (orders) totals of the aggregated clients sum to the
\* amounts of the Receivables (Orders) records, and a client without a record
\* of a type has total 0 for it.
C5_Conservation ==
  (pc \in {"filter", "done"} /\ data # <<>>) =>
    /\ SumOver(pivot, "receivables") = SumRecords(data, "receivables")
    /\ SumOver(pivot, "orders") = SumRecords(data, "orders")
    /\ \A c \in pivot : \A type \in {"receivables", "orders"} :
         (\A k \in 1..Len(data) :
            ~(data[k].client_id = c.client_id /\ data[k].client_name = c.client_name
              /\ data[k].type = type))
         => (IF type = "receivables" THEN c.receivables ELSE c.orders) = 0

C5_Witness ==
  /\ pc = "filter"
  /\ Cardinality(pivot) >= 2
  /\ \E c \in pivot : c.orders = 0 /\ c.receivables # 0
  /\ \E c \in pivot : c.orders # 0

\* C6: the span of a marker at row m starts at m+1 and ends at the first later
\* row containing a section code, or at the grid length; so
\* start_row <= end_row <= grid_length, no row of a span contains a code, and
\* every marker gets a span (empty when the next row is a marker or the
\* marker is the last row).
C6_Spans ==
  /\ \A sp \in spans :
       /\ sp.start_row >= 1
       /\ Contains(df_joined[sp.start_row], CodeOf(sp.section_type))
       /\ sp.start_row <= sp.end_row
       /\ sp.end_row <= Len(grid)
       /\ \A i \in sp.start_row..(sp.end_row - 1) :
            /\ ~Contains(df_joined[i + 1], <<"2", "4", "0", "6", "0", "1">>)
            /\ ~Contains(df_joined[i + 1], <<"1", "1", "0", "3", "0", "1">>)
       /\ sp.end_row < Len(grid) =>
            \/ Contains(df_joined[sp.end_row + 1], <<"2", "4", "0", "6", "0", "1">>)
            \/ Contains(df_joined[sp.end_row + 1], <<"1", "1", "0", "3", "0", "1">>)
  /\ pc = "aggregate" =>
       \A m \in 0..(Len(grid) - 1) : \A type \in {"receivables", "orders"} :
         Contains(df_joined[m + 1], CodeOf(type)) =>
           \E sp \in spans : sp.section_type = type /\ sp.start_row = m + 1

C6_Witness ==
  /\ Extracted
  /\ \E sp \in spans : sp.start_row = sp.end_row /\ sp.end_row < Len(grid)
  /\ \E sp \in spans : sp.start_row = sp.end_row /\ sp.end_row = Len(grid)
  /\ \E sp \in spans : sp.start_row < sp.end_row

\* C7: the key under which a credit limit is stored equals the client_name
\* the identity classifier produces for the same label.
C7_SameCanonicalName ==
  Extracted =>
    \A i \in 0..(Len(grid) - 1) :
      (/\ CreditLimitMask(grid, i)
       /\ RmbMask(grid, i)
       /\ NonZeroAmounts(Row(grid, i)) # <<>>)
      => ClientName(ClientInfo(grid, i)) \in DOMAIN credit_limits

InvalidInSpan(sp) ==
  Cardinality({i \in sp.start_row..(sp.end_row - 1) : InvalidClient(ClientInfo(grid, i))})

RECURSIVE InvalidInSpans(_)
InvalidInSpans(S) ==
  IF S = {} THEN 0
  ELSE LET sp == CHOOSE x \in S : TRUE
       IN InvalidInSpan(sp) + InvalidInSpans(S \ {sp})

\* C9: every row of a section span whose label is empty or 'nan' increments
\* invalid_client by one.
C9_InvalidClientCounted ==
  Extracted => skipped_rows.invalid_client = InvalidInSpans(spans)

\* C10: no grid row lies in a Receivables span and in an Orders span, so no
\* row is added to both totals.
C10_OneSectionType ==
  \A s1 \in spans : \A s2 \in spans :
    s1.section_type # s2.section_type =>
      (s1.start_row..(s1.end_row - 1)) \cap (s2.start_row..(s2.end_row - 1)) = {}

====
